---- MODULE Spec2Model ----
(***************************************************************************)
(* A model of the novel creator's long-horizon memory (core/memory_system  *)
(* SmartMemory, the "Fact Store") and of the batch chapter generator that  *)
(* drives it from a thread pool (core/batch_generator).                    *)
(*                                                                         *)
(* Text is modelled as a sequence of runs [ch, n]: n copies of the         *)
(* character ch.  Character names and key events are sequences of          *)
(* one-character strings.  A persisted file is [kind, val]: absent, valid  *)
(* JSON holding val, empty, syntactically broken JSON, or bytes that are   *)
(* not UTF-8.                                                              *)
(***************************************************************************)
EXTENDS Integers, Sequences, FiniteSets, TLC

VARIABLES
    mem,        \* the SmartMemory object's eight categories
    disk,       \* the files under memory_dir, backups/ excepted
    backups,    \* memory_dir/backups: timestamp -> snapshot
    now,        \* the wall clock, in whole seconds (strftime %Y%m%d_%H%M%S)
    saveSeq,    \* number of _save_to_disk calls made so far
    last,       \* the last store operation and how it ended
    fresh,      \* the outcome of constructing a new SmartMemory on memory_dir
    opCount,    \* number of store operations performed
    batch,      \* generate_batch_chapters: the main thread's frame
    workers,    \* one record per submitted _generate_single_chapter call
    query       \* the read-only calls made so far: what was asked, what came back

vars == <<mem, disk, backups, now, saveSeq, last, fresh, opCount, batch, workers, query>>

storeVars == <<mem, disk, backups, now, saveSeq, last, fresh, opCount>>

batchVars == <<batch, workers>>

-----------------------------------------------------------------------------
(* Bounds of the model *)

MaxOps == 3

MaxTime == 6

MaxLoadOps == 2

MaxCorrupt == 1

MaxSaveOps == 2

MaxSaves == 7

MaxChapters == 2

(* Program constants *)

BackupsKept == 5

ProximityWindow == 500

SummaryLimit == 200

max_workers == 3

-----------------------------------------------------------------------------
(* Text helpers *)

RECURSIVE StrLen(_)
StrLen(s) == IF s = <<>> THEN 0 ELSE s[1].n + StrLen(Tail(s))

RECURSIVE TakeChars(_, _)
TakeChars(s, k) ==
    IF k <= 0 \/ s = <<>> THEN <<>>
    ELSE IF s[1].n <= k THEN <<s[1]>> \o TakeChars(Tail(s), k - s[1].n)
    ELSE <<[ch |-> s[1].ch, n |-> k]>>

Offset(s, i) == StrLen(SubSeq(s, 1, i - 1))

MatchesAt(s, name, i) ==
    /\ i + Len(name) - 1 <= Len(s)
    /\ \A j \in 1..Len(name) : s[i + j - 1].n = 1 /\ s[i + j - 1].ch = name[j]

Contains(s, name) == \E i \in 1..Len(s) : MatchesAt(s, name, i)

Find(s, name) ==
    IF Contains(s, name)
    THEN Offset(s, CHOOSE i \in 1..Len(s) :
                    /\ MatchesAt(s, name, i)
                    /\ \A k \in 1..(i - 1) : ~MatchesAt(s, name, k))
    ELSE -1

Abs(x) == IF x < 0 THEN -x ELSE x

IsSubstr(k, e) ==
    \E i \in 1..(Len(e) - Len(k) + 1) : SubSeq(e, i, i + Len(k) - 1) = k

Ellipsis == <<[ch |-> ".", n |-> 3]>>

IsSafeChar(c) == c \in {"a", "b", "c", " ", "_", "-"}

safe_name(name) == SelectSeq(name, IsSafeChar)

-----------------------------------------------------------------------------
(* The store's values *)

EmptyMap == [k \in {} |-> 0]

EmptyGraph == [shape |-> "none", rels |-> EmptyMap, list |-> <<>>]

EmptyMem ==
    [core_settings      |-> EmptyMap,
     characters         |-> <<>>,
     worldview          |-> EmptyMap,
     chapter_summaries  |-> EmptyMap,
     relationship_graph |-> EmptyGraph,
     timeline           |-> <<>>,
     plots              |-> <<>>,
     locations          |-> EmptyMap]

Absent == [kind |-> "absent", val |-> EmptyMap]

Valid(v) == [kind |-> "valid", val |-> v]

EmptyDisk ==
    [core       |-> Absent,
     characters |-> EmptyMap,
     summaries  |-> Absent,
     worldview  |-> Absent,
     timeline   |-> Absent,
     plots      |-> EmptyMap,
     locations  |-> EmptyMap]

Categories ==
    <<"core", "characters", "summaries", "worldview", "timeline", "plots", "locations">>

CategoryIndex(c) == CHOOSE i \in 1..Len(Categories) : Categories[i] = c

\* a dict assignment that would keep the entry already stored under the key
KeepExisting(f, k, v) == [x \in (DOMAIN f) \cup {k} |-> IF x \in DOMAIN f THEN f[x] ELSE v]

Put(f, k, v) == [x \in (DOMAIN f) \cup {k} |-> IF x = k THEN v ELSE f[x]]

-----------------------------------------------------------------------------
(* self.characters is a Python dict: insertion-ordered, modelled as a      *)
(* sequence of [name, prof] entries with distinct names.                   *)

Names(chars) == {chars[i].name : i \in 1..Len(chars)}

IndexOf(chars, name) == CHOOSE i \in 1..Len(chars) : chars[i].name = name

Profile(chars, name) == chars[IndexOf(chars, name)].prof

SetProfile(chars, name, p) ==
    IF name \in Names(chars)
    THEN [chars EXCEPT ![IndexOf(chars, name)].prof = p]
    ELSE Append(chars, [name |-> name, prof |-> p])

AsMap(chars) == [nm \in Names(chars) |-> Profile(chars, nm)]

Perms(S) == {f \in [1..Cardinality(S) -> S] : \A i, j \in DOMAIN f : f[i] = f[j] => i = j}

-----------------------------------------------------------------------------
(* _create_backup: one snapshot directory per second of wall clock.  A     *)
(* snapshot is recorded by the number of the _save_to_disk call that       *)
(* created it (it holds the on-disk state that call found); the content    *)
(* of the copied files is not modelled.                                    *)

Oldest(b) == CHOOSE t \in DOMAIN b : \A u \in DOMAIN b : t <= u

\* backups[:-5] of the sorted listing are removed
RECURSIVE PruneBackups(_)
PruneBackups(b) ==
    IF Cardinality(DOMAIN b) <= BackupsKept THEN b
    ELSE PruneBackups([t \in (DOMAIN b) \ {Oldest(b)} |-> b[t]])

\* t: the timestamp, n: the number of the calling save.  When the snapshot
\* directory of this second exists already, copytree meets an existing
\* sub-directory and raises FileExistsError: the handler at line 215 prints
\* a warning, and the pruning is skipped.
create_backup(b, t, n) ==
    IF t \in DOMAIN b
    THEN b
    ELSE PruneBackups(Put(b, t, [by |-> n]))

-----------------------------------------------------------------------------
(* _save_to_disk: the seven categories are written in order inside one     *)
(* try block; the first write that raises ends the whole save.             *)

RECURSIVE WriteCharacters(_, _)
WriteCharacters(files, chars) ==
    IF chars = <<>> THEN files
    ELSE WriteCharacters(Put(files, safe_name(chars[1].name), Valid(chars[1].prof)),
                         Tail(chars))

WritePlots(files, plots) ==
    [i \in (DOMAIN files) \cup (1..Len(plots)) |->
        IF i \in 1..Len(plots) THEN Valid(plots[i]) ELSE files[i]]

LocationFiles(locs) == {safe_name(nm) : nm \in DOMAIN locs}

WriteLocations(files, locs) ==
    [f \in (DOMAIN files) \cup LocationFiles(locs) |->
        IF f \in LocationFiles(locs)
        THEN Valid(locs[CHOOSE nm \in DOMAIN locs : safe_name(nm) = f])
        ELSE files[f]]

WriteCategory(c, m, d) ==
    CASE c = "core"       -> [d EXCEPT !.core = Valid(m.core_settings)]
      [] c = "characters" -> [d EXCEPT !.characters = WriteCharacters(@, m.characters)]
      [] c = "summaries"  -> [d EXCEPT !.summaries = Valid(m.chapter_summaries)]
      [] c = "worldview"  -> [d EXCEPT !.worldview = Valid(m.worldview)]
      [] c = "timeline"   -> [d EXCEPT !.timeline = Valid(m.timeline)]
      [] c = "plots"      -> [d EXCEPT !.plots = WritePlots(@, m.plots)]
      [] c = "locations"  -> [d EXCEPT !.locations = WriteLocations(@, m.locations)]

\* the categories whose write can raise: those that open at least one file
Writes(c, m) ==
    CASE c = "characters" -> m.characters # <<>>
      [] c = "plots"      -> m.plots # <<>>
      [] c = "locations"  -> DOMAIN m.locations # {}
      [] OTHER            -> TRUE

FailPoints == {"none"} \cup {Categories[i] : i \in 1..Len(Categories)}

FailChoices(m) == {"none"} \cup {Categories[i] : i \in {j \in 1..Len(Categories) : Writes(Categories[j], m)}}

RECURSIVE WriteFrom(_, _, _, _)
WriteFrom(i, m, d, failAt) ==
    IF i > Len(Categories) THEN d
    ELSE IF Categories[i] = failAt THEN d
    ELSE WriteFrom(i + 1, m, WriteCategory(Categories[i], m, d), failAt)

save_to_disk(m, d, failAt) == WriteFrom(1, m, d, failAt)

-----------------------------------------------------------------------------
(* _load_from_disk, as run by the constructor on a new object.  Only       *)
(* json.JSONDecodeError is handled per file; any other exception (bytes    *)
(* that do not decode as UTF-8) reaches the outer handler, which calls     *)
(* _init_default_structure.  SmartMemory defines no such method, so the    *)
(* call raises AttributeError.                                             *)

HasInitDefaultStructure == FALSE

Undecodable(f) == f.kind = "badutf8"

AnyUndecodable(d) ==
    \/ \E c \in {"core", "summaries", "worldview", "timeline"} : Undecodable(d[c])
    \/ \E c \in {"characters", "plots", "locations"} :
           \E f \in DOMAIN d[c] : Undecodable(d[c][f])

\* one top-level record: an empty file keeps the constructor's value, broken
\* JSON sets the empty default
ReadRecord(f, default) == IF f.kind = "valid" THEN f.val ELSE default

RECURSIVE LoadCharacters(_, _)
LoadCharacters(files, order) ==
    IF order = <<>> THEN <<>>
    ELSE IF files[order[1]].kind = "valid"
         THEN <<[name |-> order[1], prof |-> files[order[1]].val]>>
                  \o LoadCharacters(files, Tail(order))
         ELSE LoadCharacters(files, Tail(order))

RECURSIVE LoadPlots(_, _)
LoadPlots(files, order) ==
    IF order = <<>> THEN <<>>
    ELSE IF files[order[1]].kind = "valid"
         THEN <<files[order[1]].val>> \o LoadPlots(files, Tail(order))
         ELSE LoadPlots(files, Tail(order))

LoadLocations(files) ==
    [f \in {g \in DOMAIN files : files[g].kind = "valid"} |-> files[f].val]

\* charOrder and plotOrder: the orders in which os.listdir lists the two
\* directories
load_from_disk(d, charOrder, plotOrder) ==
    IF AnyUndecodable(d)
    THEN [status |-> IF HasInitDefaultStructure THEN "ok" ELSE "raised", mem |-> EmptyMem]
    ELSE [status |-> "ok",
          mem |-> [core_settings      |-> ReadRecord(d.core, EmptyMap),
                   characters         |-> LoadCharacters(d.characters, charOrder),
                   worldview          |-> ReadRecord(d.worldview, EmptyMap),
                   chapter_summaries  |-> ReadRecord(d.summaries, EmptyMap),
                   relationship_graph |-> EmptyGraph,
                   timeline           |-> ReadRecord(d.timeline, <<>>),
                   plots              |-> LoadPlots(d.plots, plotOrder),
                   locations          |-> LoadLocations(d.locations)]]

-----------------------------------------------------------------------------
(* update_with_chapter, the part before the flush (lines 485-537).         *)
(* A chapter is [summary, content, key_events, character_development,      *)
(* locations_found]; locations_found stands for the result of the          *)
(* regular-expression scan of content in _extract_locations.               *)

str(n) == <<"s", n>>

ChapterSummaryText(data) ==
    IF StrLen(data.summary) # 0 THEN data.summary
    ELSE IF StrLen(data.content) > SummaryLimit
         THEN TakeChars(data.content, SummaryLimit) \o Ellipsis
         ELSE data.content

chapter_summary(n, data) ==
    [summary        |-> ChapterSummaryText(data),
     chapter_number |-> n,
     word_count     |-> StrLen(data.content),
     key_events     |-> data.key_events]

\* a variant that skips a development entry already in the history
RECURSIVE DevelopCharactersOnce(_, _, _)
DevelopCharactersOnce(chars, devs, n) ==
    IF devs = <<>> THEN chars
    ELSE LET nm == devs[1].name
             entry == [chapter |-> n, development |-> devs[1].note]
             next == IF nm \in Names(chars)
                     THEN SetProfile(chars, nm,
                              [Profile(chars, nm) EXCEPT
                                  !.last_appearance = n,
                                  !.development_history =
                                      IF \E i \in 1..Len(@) : @[i] = entry THEN @
                                      ELSE Append(@, entry)])
                     ELSE chars
         IN DevelopCharactersOnce(next, Tail(devs), n)

\* a variant that creates a profile for a name it does not know
RECURSIVE DevelopCharactersCreating(_, _, _)
DevelopCharactersCreating(chars, devs, n) ==
    IF devs = <<>> THEN chars
    ELSE LET nm == devs[1].name
             base == IF nm \in Names(chars) THEN Profile(chars, nm)
                     ELSE [importance |-> 5, last_appearance |-> 0,
                           development_history |-> <<>>]
         IN DevelopCharactersCreating(
                SetProfile(chars, nm,
                    [base EXCEPT !.last_appearance = n,
                                 !.development_history =
                                     Append(@, [chapter |-> n, development |-> devs[1].note])]),
                Tail(devs), n)

RECURSIVE DevelopCharacters(_, _, _)
DevelopCharacters(chars, devs, n) ==
    IF devs = <<>> THEN chars
    ELSE LET nm == devs[1].name
             next == IF nm \in Names(chars)
                     THEN SetProfile(chars, nm,
                              [Profile(chars, nm) EXCEPT
                                  !.last_appearance = n,
                                  !.development_history =
                                      Append(@, [chapter |-> n, development |-> devs[1].note])])
                     ELSE chars
         IN DevelopCharacters(next, Tail(devs), n)

RECURSIVE AppendEvents(_, _, _)
AppendEvents(timeline, events, n) ==
    IF events = <<>> THEN timeline
    ELSE AppendEvents(Append(timeline, [chapter |-> n, description |-> events[1],
                                        type |-> "chapter_event"]),
                      Tail(events), n)

extract_locations(locs, found, n) ==
    [nm \in (DOMAIN locs) \cup found |->
        IF nm \notin DOMAIN locs
        THEN [first_appearance |-> n, last_appearance |-> n, appearance_count |-> 1]
        ELSE IF nm \in found
             THEN [locs[nm] EXCEPT !.last_appearance = n,
                                   !.appearance_count = @ + 1]
             ELSE locs[nm]]

\* any(keyword in event for keyword in plot_keywords), for some event
PlotMatches(plot, events) ==
    \E i \in 1..Len(events) : \E k \in 1..Len(plot.keywords) :
        IsSubstr(plot.keywords[k], events[i])

\* the break at line 594 leaves the loop over the events, not the loop over
\* the plots; the new thread is created whenever there are two key events
extract_plots(plots, events, n) ==
    IF events = <<>> THEN plots
    ELSE LET folded == [i \in 1..Len(plots) |->
                           IF PlotMatches(plots[i], events)
                           THEN [plots[i] EXCEPT !.chapters = Append(@, n)]
                           ELSE plots[i]]
         IN IF Len(events) >= 2
            THEN Append(folded, [start_chapter |-> n,
                                 end_chapter   |-> n,
                                 keywords      |-> SubSeq(events, 1, IF Len(events) < 3 THEN Len(events) ELSE 3),
                                 chapters      |-> <<n>>])
            ELSE folded

character_interactions(chars, content) ==
    {pr \in Names(chars) \X Names(chars) :
        /\ pr[1] # pr[2]
        /\ Contains(content, pr[1]) /\ Contains(content, pr[2])
        /\ Abs(Find(content, pr[1]) - Find(content, pr[2])) < ProximityWindow}

NewRelationship(pr, n) ==
    [characters           |-> pr,
     interaction_count    |-> 1,
     first_interaction    |-> n,
     last_interaction     |-> n,
     interaction_chapters |-> <<n>>]

BumpRelationship(rel, n) ==
    [rel EXCEPT !.interaction_count = @ + 1,
                !.last_interaction = n,
                !.interaction_chapters =
                    IF \E i \in 1..Len(@) : @[i] = n THEN @ ELSE Append(@, n)]

\* relationship_graph['relationships'] is a dict here and a list in
\* add_relationship; indexing the list with a string key raises TypeError
update_relationships(graph, chars, content, n) ==
    LET inter == character_interactions(chars, content)
    IN IF inter = {} THEN [raised |-> FALSE, graph |-> graph]
       ELSE IF graph.shape = "list" THEN [raised |-> TRUE, graph |-> graph]
       ELSE [raised |-> FALSE,
             graph  |-> [graph EXCEPT
                 !.shape = "dict",
                 !.rels = [pr \in (DOMAIN @) \cup inter |->
                              IF pr \notin DOMAIN @ THEN NewRelationship(pr, n)
                              ELSE IF pr \in inter THEN BumpRelationship(@[pr], n)
                              ELSE @[pr]]]]

update_memory(m, n, data) ==
    LET rel == update_relationships(m.relationship_graph,
                   DevelopCharacters(m.characters, data.character_development, n),
                   data.content, n)
    IN [raised |-> rel.raised,
        mem |-> [m EXCEPT
            !.chapter_summaries  = Put(@, str(n), chapter_summary(n, data)),
            !.characters         = DevelopCharacters(@, data.character_development, n),
            !.timeline           = AppendEvents(@, data.key_events, n),
            !.locations          = extract_locations(@, data.locations_found, n),
            !.plots              = extract_plots(@, data.key_events, n),
            !.relationship_graph = rel.graph]]

-----------------------------------------------------------------------------
(* Inputs *)

NameA == <<"a">>

NameB == <<"b">>

NameSlash == <<"a", "/">>

NewProfile(imp) == [importance |-> imp, last_appearance |-> 0, development_history |-> <<>>]

CharacterLists ==
    {<<[name |-> NameA, importance |-> 9]>>,
     <<[name |-> NameA, importance |-> 5], [name |-> NameB, importance |-> 7]>>,
     <<[name |-> NameSlash, importance |-> 6]>>}

SettingsInputs == {[title |-> [v |-> 1]], [title |-> [v |-> 2]]}

WorldviewInputs == {[culture |-> [v |-> 3]]}

Filler(k) == [ch |-> "_", n |-> k]

Lit(c) == [ch |-> c, n |-> 1]

EventX == <<"x">>

EventY == <<"y">>

EventXY == <<"x", "y">>

LocC == <<"c">>

\* no summary, a and b nine characters apart, more than 200 characters
ChapterNear ==
    [summary               |-> <<>>,
     content               |-> <<Lit("a"), Filler(9), Lit("b"), Filler(300)>>,
     key_events            |-> <<EventX, EventY>>,
     character_development |-> <<[name |-> NameA, note |-> 1], [name |-> <<"z">>, note |-> 2]>>,
     locations_found       |-> {LocC}]

\* a summary, a and b 601 characters apart, one key event that contains "x"
ChapterFar ==
    [summary               |-> <<Lit("a"), Filler(5)>>,
     content               |-> <<Lit("a"), Filler(600), Lit("b")>>,
     key_events            |-> <<EventXY>>,
     character_development |-> <<[name |-> NameB, note |-> 3]>>,
     locations_found       |-> {}]

ChapterInputs == {ChapterNear, ChapterFar}

ChapterNumbers == 1..2

\* the content of an export file
ImportData ==
    [core_settings     |-> [title |-> [v |-> 7]],
     characters        |-> <<[name |-> NameB, prof |-> NewProfile(4)]>>,
     worldview         |-> [culture |-> [v |-> 8]],
     chapter_summaries |-> Put(EmptyMap, str(1), chapter_summary(1, ChapterFar)),
     timeline          |-> <<>>,
     plots             |-> <<>>,
     locations         |-> EmptyMap]

required_keys == <<"core_settings", "characters", "worldview", "chapter_summaries">>

RequiredSet == {required_keys[i] : i \in 1..Len(required_keys)}

OptionalSet == {"timeline", "plots", "locations"}

\* an import file: missing, not JSON, or a JSON object with these keys
ImportFiles ==
    {[exists |-> FALSE, json |-> FALSE, keys |-> {}],
     [exists |-> TRUE,  json |-> FALSE, keys |-> {}]}
    \cup {[exists |-> TRUE, json |-> TRUE, keys |-> K] :
             K \in {RequiredSet \cup OptionalSet, RequiredSet}
                   \cup {(RequiredSet \cup OptionalSet) \ {k} : k \in RequiredSet}}

-----------------------------------------------------------------------------
(* The store's operations on the in-memory categories *)

DictUpdate(d, u) ==
    [k \in (DOMAIN d) \cup (DOMAIN u) |-> IF k \in DOMAIN u THEN u[k] ELSE d[k]]

RECURSIVE PutCharacters(_, _)
PutCharacters(chars, list) ==
    IF list = <<>> THEN chars
    ELSE PutCharacters(SetProfile(chars, list[1].name, NewProfile(list[1].importance)),
                       Tail(list))

set_worldview(m, w) ==
    [m EXCEPT !.worldview = w,
              !.core_settings = IF "worldview" \in DOMAIN @ THEN @ ELSE Put(@, "worldview", w)]

MissingKey(file) == \E i \in 1..Len(required_keys) : required_keys[i] \notin file.keys

ImportRejected(file) == ~file.exists \/ ~file.json \/ MissingKey(file)

\* lines 875-881: the four mandatory categories, and the three optional
\* ones with their defaults; relationship_graph is not touched
import_assign(m, file) ==
    [m EXCEPT
        !.core_settings     = ImportData.core_settings,
        !.characters        = ImportData.characters,
        !.worldview         = ImportData.worldview,
        !.chapter_summaries = ImportData.chapter_summaries,
        !.timeline  = IF "timeline" \in file.keys THEN ImportData.timeline ELSE <<>>,
        !.plots     = IF "plots" \in file.keys THEN ImportData.plots ELSE <<>>,
        !.locations = IF "locations" \in file.keys THEN ImportData.locations ELSE EmptyMap]

\* a variant that assigns the categories as it validates them
import_result_partial(m, file) ==
    IF ~file.exists \/ ~file.json THEN m
    ELSE IF MissingKey(file)
         THEN [m EXCEPT !.core_settings =
                   IF "core_settings" \in file.keys THEN ImportData.core_settings ELSE @]
         ELSE import_assign(m, file)

import_result(m, file) == IF ImportRejected(file) THEN m ELSE import_assign(m, file)

-----------------------------------------------------------------------------
(* The store's operations as steps.  Flush is the call of _save_to_disk    *)
(* that ends a mutation: backup first, then the category files.            *)

NoFresh == [status |-> "none", mem |-> EmptyMem]

\* last: the operation, how it ended ("none": returned None, "true"/"false":
\* the value returned, "raised": an exception left the method), the category
\* whose write failed in its flush, whether it was an import of a JSON object
\* lacking a mandatory key, and whether every operation so far returned
Done(op, result, failAt, missing) ==
    /\ last' = [op |-> op, result |-> result, failAt |-> failAt, missing |-> missing,
                clean |-> last.clean /\ result # "raised"]
    /\ opCount' = opCount + 1
    /\ fresh' = NoFresh

Flush(m, failAt) ==
    /\ failAt \in FailChoices(m)
    /\ mem' = m
    /\ backups' = create_backup(backups, now, saveSeq + 1)
    /\ disk' = save_to_disk(m, disk, failAt)
    /\ saveSeq' = saveSeq + 1

NoFlush(m) ==
    /\ mem' = m
    /\ UNCHANGED <<disk, backups, saveSeq>>

save_core_settings(settings, failAt) ==
    /\ Flush([mem EXCEPT !.core_settings = DictUpdate(@, settings)], failAt)
    /\ Done("save_core_settings", "none", failAt, FALSE)
    /\ UNCHANGED <<now, batchVars, query>>

save_characters(list, failAt) ==
    /\ Flush([mem EXCEPT !.characters = PutCharacters(@, list)], failAt)
    /\ Done("save_characters", "none", failAt, FALSE)
    /\ UNCHANGED <<now, batchVars, query>>

save_worldview(w, failAt) ==
    /\ Flush(set_worldview(mem, w), failAt)
    /\ Done("save_worldview", "none", failAt, FALSE)
    /\ UNCHANGED <<now, batchVars, query>>

update_with_chapter(n, data, failAt) ==
    /\ LET r == update_memory(mem, n, data)
       IN IF r.raised
          THEN failAt = "none" /\ NoFlush(r.mem)
                   /\ Done("update_with_chapter", "raised", "none", FALSE)
          ELSE Flush(r.mem, failAt) /\ Done("update_with_chapter", "none", failAt, FALSE)
    /\ UNCHANGED <<now, batchVars, query>>

update_character(name, updates, failAt) ==
    /\ IF name \in Names(mem.characters)
       THEN Flush([mem EXCEPT !.characters =
                      SetProfile(@, name, DictUpdate(Profile(@, name), updates))], failAt)
       ELSE NoFlush(mem) /\ failAt = "none"
    /\ Done("update_character", "none", failAt, FALSE)
    /\ UNCHANGED <<now, batchVars, query>>

\* relationship_graph['relationships'] is a list here and a dict in
\* _update_relationships; dict has no append: AttributeError
add_relationship(c1, c2, relationship, failAt) ==
    /\ IF mem.relationship_graph.shape = "dict"
       THEN failAt = "none" /\ NoFlush(mem)
                /\ Done("add_relationship", "raised", "none", FALSE)
       ELSE /\ Flush([mem EXCEPT !.relationship_graph =
                         [@ EXCEPT !.shape = "list",
                                   !.list = Append(@, [char1 |-> c1, char2 |-> c2,
                                                       relationship |-> relationship])]],
                     failAt)
            /\ Done("add_relationship", "none", failAt, FALSE)
    /\ UNCHANGED <<now, batchVars, query>>

import_memory(file, failAt) ==
    /\ IF ImportRejected(file)
       THEN /\ failAt = "none"
            /\ NoFlush(import_result(mem, file))
            /\ Done("import_memory", "false", "none",
                    file.exists /\ file.json /\ MissingKey(file))
       ELSE Flush(import_result(mem, file), failAt) /\ Done("import_memory", "true", failAt, FALSE)
    /\ UNCHANGED <<now, batchVars, query>>

\* rmtree(memory_dir) removes the category files and backups/;
\* _ensure_directories recreates the empty directories; then the call of
\* the undefined _init_default_structure raises AttributeError
clear_memory ==
    /\ mem' = EmptyMem
    /\ disk' = EmptyDisk
    /\ backups' = EmptyMap
    /\ Done("clear_memory", IF HasInitDefaultStructure THEN "none" ELSE "raised", "none", FALSE)
    /\ UNCHANGED <<now, saveSeq, batchVars, query>>

\* SmartMemory(memory_dir) constructed on the directory as it is now
FreshLoad ==
    /\ fresh.status = "none"
    /\ \E co \in Perms(DOMAIN disk.characters) : \E po \in Perms(DOMAIN disk.plots) :
           fresh' = load_from_disk(disk, co, po)
    /\ UNCHANGED <<mem, disk, backups, now, saveSeq, last, opCount, batchVars, query>>

Tick ==
    /\ now < MaxTime
    /\ now' = now + 1
    /\ UNCHANGED <<mem, disk, backups, saveSeq, last, fresh, opCount, batchVars, query>>

-----------------------------------------------------------------------------
(* The store driven by a caller, every write succeeding *)

StoreInit ==
    /\ mem = EmptyMem
    /\ disk = EmptyDisk
    /\ backups = EmptyMap
    /\ now = 0
    /\ saveSeq = 0
    /\ last = [op |-> "init", result |-> "none", failAt |-> "none", missing |-> FALSE,
              clean |-> TRUE]
    /\ fresh = NoFresh
    /\ opCount = 0

BatchIdle ==
    /\ batch = [pc |-> "idle"]
    /\ workers = <<>>

NoQuery == query = <<>>

Init == StoreInit /\ BatchIdle /\ NoQuery

ProfileUpdates == {[importance |-> 8], [development_history |-> <<>>]}

CanOp == opCount < MaxOps

Next ==
    \/ \E st \in SettingsInputs : CanOp /\ save_core_settings(st, "none")
    \/ \E cl \in CharacterLists : CanOp /\ save_characters(cl, "none")
    \/ \E w \in WorldviewInputs : CanOp /\ save_worldview(w, "none")
    \/ \E n \in ChapterNumbers : \E data \in ChapterInputs :
           CanOp /\ update_with_chapter(n, data, "none")
    \/ \E u \in ProfileUpdates : CanOp /\ update_character(NameA, u, "none")
    \/ CanOp /\ add_relationship(NameA, NameB, "friend", "none")
    \/ \E file \in ImportFiles : CanOp /\ import_memory(file, "none")
    \/ CanOp /\ clear_memory
    \/ FreshLoad

Spec == Init /\ [][Next]_vars

-----------------------------------------------------------------------------
(* The store with damaged files: the caller fills the store, files get     *)
(* damaged behind its back, a new SmartMemory is constructed               *)

Damaged(f) == f.kind \in {"empty", "badjson", "badutf8"}

DamagedFiles(d) ==
    {<<c, 0>> : c \in {x \in {"core", "summaries", "worldview", "timeline"} : Damaged(d[x])}}
    \cup {<<"characters", f>> : f \in {g \in DOMAIN d.characters : Damaged(d.characters[g])}}
    \cup {<<"plots", f>> : f \in {g \in DOMAIN d.plots : Damaged(d.plots[g])}}
    \cup {<<"locations", f>> : f \in {g \in DOMAIN d.locations : Damaged(d.locations[g])}}

DamageKinds == {"empty", "badjson", "badutf8"}

DamageRecord(c, kind) ==
    /\ disk[c].kind = "valid"
    /\ disk' = [disk EXCEPT ![c] = [kind |-> kind, val |-> EmptyMap]]

DamageEntry(c, kind) ==
    \E f \in DOMAIN disk[c] :
        /\ disk[c][f].kind = "valid"
        /\ disk' = [disk EXCEPT ![c][f] = [kind |-> kind, val |-> EmptyMap]]

Corrupt ==
    /\ Cardinality(DamagedFiles(disk)) < MaxCorrupt
    /\ fresh.status = "none"
    /\ \E kind \in DamageKinds :
          \/ \E c \in {"core", "summaries", "worldview", "timeline"} : DamageRecord(c, kind)
          \/ \E c \in {"characters", "plots", "locations"} : DamageEntry(c, kind)
    /\ UNCHANGED <<mem, backups, now, saveSeq, last, fresh, opCount, batchVars, query>>

CanFill == opCount < MaxLoadOps /\ DamagedFiles(disk) = {}

NextLoad ==
    \/ \E st \in SettingsInputs : CanFill /\ save_core_settings(st, "none")
    \/ \E cl \in CharacterLists : CanFill /\ save_characters(cl, "none")
    \/ \E n \in ChapterNumbers : \E data \in ChapterInputs :
           CanFill /\ update_with_chapter(n, data, "none")
    \/ Corrupt
    \/ FreshLoad

SpecLoad == Init /\ [][NextLoad]_vars

-----------------------------------------------------------------------------
(* The store on a disk whose writes can fail *)

CanSave == opCount < MaxSaveOps

NextSave ==
    \/ \E st \in SettingsInputs : \E fa \in FailPoints :
           CanSave /\ save_core_settings(st, fa)
    \/ \E cl \in CharacterLists : \E fa \in FailPoints :
           CanSave /\ save_characters(cl, fa)
    \/ \E n \in ChapterNumbers : \E data \in ChapterInputs : \E fa \in FailPoints :
           CanSave /\ update_with_chapter(n, data, fa)

SpecSave == Init /\ [][NextSave]_vars

-----------------------------------------------------------------------------
(* Consecutive saves against the wall clock *)

NextBackup ==
    \/ \E st \in SettingsInputs : saveSeq < MaxSaves /\ save_core_settings(st, "none")
    \/ Tick

SpecBackup == Init /\ [][NextBackup]_vars

-----------------------------------------------------------------------------
(* The Content Generation Service's answer and JSONOutputParser.parse.     *)
(* A response text is a JSON object (a chapter), JSON of another shape, or *)
(* text that is not JSON; code fences, if any, are stripped first.         *)

RawText == <<Lit("a"), Filler(40)>>

ChapterOf(content) ==
    [summary               |-> <<>>,
     content               |-> content,
     key_events            |-> <<>>,
     character_development |-> <<>>,
     locations_found       |-> {}]

Responses ==
    {[body |-> "dict", data |-> ChapterNear],
     [body |-> "list", data |-> ChapterOf(RawText)],
     [body |-> "garbage", data |-> ChapterOf(RawText)]}

\* json.loads succeeds, or JSONDecodeError is caught and a dict holding the
\* raw text and an "error" entry is returned
parse(text) ==
    IF text.body = "garbage"
    THEN [isdict |-> TRUE, error |-> TRUE, data |-> text.data]
    ELSE [isdict |-> text.body = "dict", error |-> FALSE, data |-> text.data]

\* NovelGenerator.generate_chapter: a result that is not a dict is wrapped
\* into a chapter whose content is str(result)
generate_chapter(text) ==
    LET result == parse(text)
    IN IF result.isdict THEN result.data ELSE ChapterOf(result.data.content)

Malformed(text) == text.body # "dict"

-----------------------------------------------------------------------------
(* BatchChapterGenerator.generate_batch_chapters and its worker calls      *)

NoChapter == ChapterOf(<<>>)

NewWorker(n) ==
    [chapter |-> n, pc |-> "queued", seen |-> {}, calls |-> 0, malformed |-> FALSE,
     data |-> NoChapter, success |-> FALSE, error |-> "none", collected |-> FALSE]

Requested == batch.start_chapter..(batch.start_chapter + batch.chapters_count - 1)

Running == {i \in 1..Len(workers) : workers[i].pc \in {"gen", "update", "flush"}}

\* the results record of lines 55-64 and the settings of the call
NewBatch(count, cb, checker, framework, raises, limit) ==
    [pc              |-> IF raises THEN "raised" ELSE "submit",
     start_chapter   |-> 1,
     chapters_count  |-> count,
     callbacks       |-> cb,
     checker         |-> checker,
     framework       |-> framework,
     max_workers     |-> limit,
     success_count   |-> 0,
     failed_count    |-> 0,
     total_words     |-> 0,
     chapters        |-> <<>>,
     completed_count |-> 0]

\* generate_batch_chapters is called; line 53 runs the status callback
\* outside the try block
Start ==
    /\ batch.pc = "idle"
    /\ \E count \in 1..MaxChapters : \E cb \in BOOLEAN : \E checker \in BOOLEAN :
       \E framework \in BOOLEAN : \E raises \in BOOLEAN :
           /\ raises => cb
           /\ batch' = NewBatch(count, cb, checker, framework, raises, max_workers)
    /\ UNCHANGED <<workers, storeVars, query>>

\* the same call on a generator whose max_workers attribute was set to 1
StartSerial ==
    /\ batch.pc = "idle"
    /\ \E count \in 1..MaxChapters : \E cb \in BOOLEAN : \E checker \in BOOLEAN :
       \E framework \in BOOLEAN : \E raises \in BOOLEAN :
           /\ raises => cb
           /\ batch' = NewBatch(count, cb, checker, framework, raises, 1)
    /\ UNCHANGED <<workers, storeVars, query>>

\* a pool that would ignore the setting of the generator
PoolSizeDefault(b) == max_workers

\* ThreadPoolExecutor(max_workers=self.max_workers), line 70
PoolSize(b) == b.max_workers

\* executor.submit for the next chapter number, lines 73-81
Submit ==
    /\ batch.pc = "submit"
    /\ IF Len(workers) < batch.chapters_count
       THEN /\ workers' = Append(workers, NewWorker(batch.start_chapter + Len(workers)))
            /\ UNCHANGED batch
       ELSE /\ batch' = [batch EXCEPT !.pc = "collect"]
            /\ UNCHANGED workers
    /\ UNCHANGED <<storeVars, query>>

Fail(w, why) == [w EXCEPT !.pc = "done", !.success = FALSE, !.error = why]

\* a pool thread takes the oldest queued call; lines 135-146: get_context,
\* then the outline and the characters are looked up in the session
BeginChapter(i) ==
    /\ workers[i].pc = "queued"
    /\ Cardinality(Running) < PoolSize(batch)
    /\ \A j \in 1..(i - 1) : workers[j].pc # "queued"
    /\ workers' = [workers EXCEPT ![i] =
           IF batch.framework
           THEN [@ EXCEPT !.pc = "gen", !.seen = DOMAIN mem.chapter_summaries]
           ELSE Fail([@ EXCEPT !.seen = DOMAIN mem.chapter_summaries], "framework")]
    /\ UNCHANGED <<batch, storeVars, query>>

RecentChapters(n, window) == (IF n - window < 1 THEN 1 ELSE n - window)..(n - 1)

\* _get_recent_summaries returns (number, text) pairs; check_plot_consistency
\* passes the last pair to _extract_keywords, where re.findall raises
\* TypeError on a tuple
CheckRaises(n) ==
    /\ batch.checker
    /\ \E k \in RecentChapters(n, 3) : str(k) \in DOMAIN mem.chapter_summaries

\* a worker that would call the service again after a failed call
GenerationRetried(w) ==
    IF w.calls < 1 THEN [w EXCEPT !.calls = @ + 1]
    ELSE Fail([w EXCEPT !.calls = @ + 1], "generation")

GenerationFailed(w) == Fail([w EXCEPT !.calls = @ + 1], "generation")

\* lines 149-167: the generation call, which raises (network error, timeout,
\* authentication) or returns a parsed chapter, then the consistency check
GenerateChapter(i) ==
    /\ workers[i].pc = "gen"
    /\ \/ workers' = [workers EXCEPT ![i] = GenerationFailed(@)]
       \/ \E text \in Responses :
              workers' = [workers EXCEPT ![i] =
                  LET w == [@ EXCEPT !.calls = @ + 1,
                                     !.malformed = Malformed(text),
                                     !.data = generate_chapter(text)]
                  IN IF CheckRaises(w.chapter) THEN Fail(w, "check")
                     ELSE [w EXCEPT !.pc = "update"]]
    /\ UNCHANGED <<batch, storeVars, query>>

\* update_with_chapter up to line 537
UpdateMemory(i) ==
    /\ workers[i].pc = "update"
    /\ LET r == update_memory(mem, workers[i].chapter, workers[i].data)
       IN /\ mem' = r.mem
          /\ workers' = [workers EXCEPT ![i] =
                 IF r.raised THEN Fail(@, "update") ELSE [@ EXCEPT !.pc = "flush"]]
    /\ UNCHANGED <<disk, backups, now, saveSeq, last, fresh, opCount, batch, query>>

\* line 540, _save_to_disk of whatever the object holds now; then the
\* chapter file is written (write_file reports failure by its result, which
\* is not read) and the success record is returned
FlushChapter(i) ==
    /\ workers[i].pc = "flush"
    /\ backups' = create_backup(backups, now, saveSeq + 1)
    /\ disk' = save_to_disk(mem, disk, "none")
    /\ saveSeq' = saveSeq + 1
    /\ workers' = [workers EXCEPT ![i] = [@ EXCEPT !.pc = "done", !.success = TRUE]]
    /\ UNCHANGED <<mem, now, last, fresh, opCount, batch, query>>

CountSuccess(b, w) ==
    [b EXCEPT !.chapters = Append(@, w.chapter),
              !.success_count = @ + 1,
              !.total_words = @ + StrLen(w.data.content),
              !.completed_count = @ + 1]

CountFailure(b) == [b EXCEPT !.failed_count = @ + 1]

\* lines 85-108, one iteration of the as_completed loop; cbRaises: the
\* progress or the status callback raises during this iteration
Collect(i, cbRaises) ==
    /\ batch.pc = "collect"
    /\ workers[i].pc = "done" /\ ~workers[i].collected
    /\ cbRaises => (batch.callbacks /\ workers[i].success)
    /\ workers' = [workers EXCEPT ![i].collected = TRUE]
    /\ batch' = IF workers[i].success
                THEN IF cbRaises THEN CountFailure(CountSuccess(batch, workers[i]))
                     ELSE CountSuccess(batch, workers[i])
                ELSE CountFailure(batch)
    /\ UNCHANGED <<storeVars, query>>

\* lines 110-115: the loop is over, the report is saved (failures of
\* _save_batch_results are caught inside it) and returned
Finish ==
    /\ batch.pc = "collect"
    /\ \A i \in 1..Len(workers) : workers[i].collected
    /\ batch' = [batch EXCEPT !.pc = "returned"]
    /\ UNCHANGED <<workers, storeVars, query>>

WorkerStep(i) ==
    \/ BeginChapter(i)
    \/ GenerateChapter(i)
    \/ UpdateMemory(i)
    \/ FlushChapter(i)

NextBatch ==
    \/ Start
    \/ Submit
    \/ \E i \in 1..Len(workers) : BeginChapter(i)
    \/ \E i \in 1..Len(workers) : GenerateChapter(i)
    \/ \E i \in 1..Len(workers) : UpdateMemory(i)
    \/ \E i \in 1..Len(workers) : FlushChapter(i)
    \/ \E i \in 1..Len(workers) : \E cbRaises \in BOOLEAN : Collect(i, cbRaises)
    \/ Finish

\* the store when a batch starts: the characters of the framework are saved
BatchStore ==
    [EmptyMem EXCEPT !.characters =
        PutCharacters(<<>>, <<[name |-> NameA, importance |-> 9],
                              [name |-> NameB, importance |-> 7]>>)]

BatchInit ==
    /\ mem = BatchStore
    /\ disk = save_to_disk(BatchStore, EmptyDisk, "none")
    /\ backups = create_backup(EmptyMap, 0, 1)
    /\ now = 0
    /\ saveSeq = 1
    /\ last = [op |-> "save_characters", result |-> "none", failAt |-> "none",
               missing |-> FALSE, clean |-> TRUE]
    /\ fresh = NoFresh
    /\ opCount = 1
    /\ BatchIdle
    /\ NoQuery

\* the process keeps running: while the main thread or a pool thread has a
\* step to take, one of them takes a step
BatchRuns ==
    \/ Submit
    \/ \E i \in 1..Len(workers) : WorkerStep(i)
    \/ \E i \in 1..Len(workers) : \E cbRaises \in BOOLEAN : Collect(i, cbRaises)
    \/ Finish

BatchFairness == WF_vars(BatchRuns)

SpecBatch == BatchInit /\ [][NextBatch]_vars /\ BatchFairness

\* the batch of a generator with one pool thread
NextSerial ==
    \/ StartSerial
    \/ Submit
    \/ \E i \in 1..Len(workers) : BeginChapter(i)
    \/ \E i \in 1..Len(workers) : GenerateChapter(i)
    \/ \E i \in 1..Len(workers) : UpdateMemory(i)
    \/ \E i \in 1..Len(workers) : FlushChapter(i)
    \/ \E i \in 1..Len(workers) : \E cbRaises \in BOOLEAN : Collect(i, cbRaises)
    \/ Finish

SpecSerial == BatchInit /\ [][NextSerial]_vars

\* the store when a batch starts after add_relationship was called on it
RelatedStore ==
    [BatchStore EXCEPT !.relationship_graph =
        [@ EXCEPT !.shape = "list",
                  !.list = <<[char1 |-> NameA, char2 |-> NameB, relationship |-> "friend"]>>]]

RelatedInit ==
    /\ mem = RelatedStore
    /\ disk = save_to_disk(RelatedStore, save_to_disk(BatchStore, EmptyDisk, "none"), "none")
    /\ backups = create_backup(create_backup(EmptyMap, 0, 1), 0, 2)
    /\ now = 0
    /\ saveSeq = 2
    /\ last = [op |-> "add_relationship", result |-> "none", failAt |-> "none",
               missing |-> FALSE, clean |-> TRUE]
    /\ fresh = NoFresh
    /\ opCount = 2
    /\ BatchIdle
    /\ NoQuery

SpecRelated == RelatedInit /\ [][NextBatch]_vars

(* generate_batch_with_plan: a plan is a list of [chapter, pending] items *)

PlanItem(n, pending) == [chapter |-> n, pending |-> pending]

Plans ==
    {<<>>,
     <<PlanItem(1, FALSE)>>,
     <<PlanItem(1, TRUE), PlanItem(2, TRUE)>>,
     <<PlanItem(1, FALSE), PlanItem(2, TRUE)>>,
     <<PlanItem(1, TRUE), PlanItem(2, FALSE), PlanItem(3, TRUE)>>}

\* [item['章节'] for item in chapter_plan if item.get('状态') == '待生成']
chapters_to_generate(plan) ==
    LET pending(item) == item.pending
        todo == SelectSeq(plan, pending)
    IN [i \in 1..Len(todo) |-> todo[i].chapter]

MinOf(sq) == CHOOSE x \in {sq[i] : i \in 1..Len(sq)} : \A i \in 1..Len(sq) : x <= sq[i]

\* lines 231-249: an empty plan or a plan with nothing pending is declined;
\* otherwise generate_batch_chapters(min(todo), len(todo)) without callbacks
generate_batch_with_plan ==
    /\ batch.pc = "idle"
    /\ \E plan \in Plans :
           /\ query' = Append(query, [fn |-> "generate_batch_with_plan", n |-> 0, out |-> plan])
           /\ LET todo == chapters_to_generate(plan)
              IN IF todo = <<>>
                 THEN batch' = [pc |-> "declined"]
                 ELSE \E checker \in BOOLEAN : \E framework \in BOOLEAN :
                          batch' = [NewBatch(Len(todo), FALSE, checker, framework, FALSE,
                                             max_workers)
                                       EXCEPT !.start_chapter = MinOf(todo)]
    /\ UNCHANGED <<workers, storeVars>>

NextPlan ==
    \/ generate_batch_with_plan
    \/ Submit
    \/ \E i \in 1..Len(workers) : BeginChapter(i)
    \/ \E i \in 1..Len(workers) : GenerateChapter(i)
    \/ \E i \in 1..Len(workers) : UpdateMemory(i)
    \/ \E i \in 1..Len(workers) : FlushChapter(i)
    \/ \E i \in 1..Len(workers) : Collect(i, FALSE)
    \/ Finish

SpecPlan == BatchInit /\ [][NextPlan]_vars

-----------------------------------------------------------------------------
(* The relevance engine: get_context and what it calls.  Scores are kept   *)
(* in thousandths (0.05 is 50, 0.3 is 300) and computed exactly.           *)

MaxQueries == 2

CharCode(c) ==
    CASE c = "a" -> 97 [] c = "b" -> 98 [] c = "c" -> 99 [] c = "/" -> 47 [] OTHER -> 63

\* a hash that would differ from one call to the next
salted_hash(name, n) ==
    Len(name) * 7919 + CharCode(name[1]) * 104729 + n * 1299709 + 17 * Len(query)

\* int(hashlib.md5(f"{name}_{n}".encode()).hexdigest(), 16): a fixed function
\* of the name and the chapter number, represented by a fixed table
md5(name, n) == Len(name) * 7919 + CharCode(name[1]) * 104729 + n * 1299709

Min(x, y) == IF x < y THEN x ELSE y

Max(x, y) == IF x < y THEN y ELSE x

\* 'name in summary' on a summary record (a dict) tests its keys
SummaryFields ==
    {<<"s", "u", "m", "m", "a", "r", "y">>,
     <<"k", "e", "y", "_", "e", "v", "e", "n", "t", "s">>}

count_character_mentions(m, name, n) ==
    Cardinality({k \in Max(1, n - 5)..(n - 1) :
                    str(k) \in DOMAIN m.chapter_summaries /\ name \in SummaryFields})

calculate_character_relevance(m, name, n) ==
    IF name \notin Names(m.characters) THEN 0
    ELSE LET prof == Profile(m.characters, name)
             since == n - prof.last_appearance
             recency == IF prof.last_appearance > 0
                        THEN IF since <= 3 THEN 300 ELSE IF since <= 10 THEN 100 ELSE 0
                        ELSE 0
             history == Min(200, 20 * Len(prof.development_history))
             mentions == Min(200, 50 * count_character_mentions(m, name, n))
         IN Min(1000, 50 * prof.importance + recency + history + mentions
                          + 2 * (md5(name, n) % 100))

\* the protagonist marker in a name
IsProtagonist(name) == \E i \in 1..Len(name) : name[i] = "P"

InSeq(x, sq) == \E i \in 1..Len(sq) : sq[i] = x

Always(chars) ==
    LET keep(e) == IsProtagonist(e.name) \/ e.prof.importance >= 8
        picked == SelectSeq(chars, keep)
    IN [i \in 1..Len(picked) |-> picked[i].name]

\* chapters 1-3: the length is tested after an addition only
RECURSIVE AddSupporting(_, _, _)
AddSupporting(sel, chars, i) ==
    IF i > Len(chars) THEN sel
    ELSE IF chars[i].prof.importance >= 6 /\ ~InSeq(chars[i].name, sel)
         THEN IF Len(sel) + 1 >= 5 THEN Append(sel, chars[i].name)
              ELSE AddSupporting(Append(sel, chars[i].name), chars, i + 1)
         ELSE AddSupporting(sel, chars, i + 1)

\* later chapters: the length is tested in every iteration
RECURSIVE AddScored(_, _, _, _)
AddScored(m, sel, i, n) ==
    IF i > Len(m.characters) THEN sel
    ELSE LET e == m.characters[i]
             take == calculate_character_relevance(m, e.name, n) >= 300
                         \/ e.prof.importance >= 7
             sel2 == IF take /\ ~InSeq(e.name, sel) THEN Append(sel, e.name) ELSE sel
         IN IF Len(sel2) >= 8 THEN sel2 ELSE AddScored(m, sel2, i + 1, n)

\* the selected names, in the order of the returned dict
get_relevant_characters(m, n) ==
    IF n <= 3 THEN AddSupporting(Always(m.characters), m.characters, 1)
    ELSE AddScored(m, Always(m.characters), 1, n)

RECURSIVE get_recent_summaries(_, _, _)
get_recent_summaries(m, lo, hi) ==
    IF lo > hi THEN <<>>
    ELSE (IF str(lo) \in DOMAIN m.chapter_summaries
          THEN LET text == m.chapter_summaries[str(lo)].summary
               IN <<[chapter |-> lo,
                     text |-> IF StrLen(text) > SummaryLimit
                              THEN TakeChars(text, SummaryLimit) \o Ellipsis ELSE text]>>
          ELSE <<>>) \o get_recent_summaries(m, lo + 1, hi)

LastOf(sq, k) == IF Len(sq) <= k THEN sq ELSE SubSeq(sq, Len(sq) - k + 1, Len(sq))

FirstOf(sq, k) == IF Len(sq) <= k THEN sq ELSE SubSeq(sq, 1, k)

\* list.sort is stable: the events of chapter 1 in store order, then those
\* of chapter 2, ...
RECURSIVE SortedEvents(_, _, _)
SortedEvents(timeline, lo, hi) ==
    IF lo > hi THEN <<>>
    ELSE LET at(e) == e.chapter = lo
         IN SelectSeq(timeline, at) \o SortedEvents(timeline, lo + 1, hi)

get_timeline_events(m, n) == LastOf(SortedEvents(m.timeline, 1, n), 10)

\* the stores of the model hold fewer locations than the cap of 5
get_relevant_locations(m, n) == {nm \in DOMAIN m.locations : md5(nm, n) % 3 = 0}

get_active_plots(m, n) ==
    LET active(p) == p.start_chapter <= n /\ n <= p.end_chapter
    IN FirstOf(SelectSeq(m.plots, active), 5)

LatestDevelopment(prof) ==
    IF prof.development_history = <<>> THEN <<>>
    ELSE <<prof.development_history[Len(prof.development_history)].development>>

\* the bundle, part by part in the order of the returned text
get_context(m, n) ==
    LET chosen == get_relevant_characters(m, n)
    IN [core       |-> m.core_settings,
        worldview  |-> m.worldview,
        characters |-> [i \in 1..Len(chosen) |->
                           [name |-> chosen[i],
                            recent |-> LatestDevelopment(Profile(m.characters, chosen[i]))]],
        summaries  |-> get_recent_summaries(m, Max(1, n - 5), n - 1),
        timeline   |-> get_timeline_events(m, n),
        locations  |-> get_relevant_locations(m, n),
        plots      |-> FirstOf(get_active_plots(m, n), 3)]

CanAsk == Len(query) < MaxQueries

Noted(fn, n, out) == Append(query, [fn |-> fn, n |-> n, out |-> out])

GetContext(n) ==
    /\ CanAsk
    /\ query' = Noted("get_context", n, get_context(mem, n))
    /\ UNCHANGED <<storeVars, batchVars>>

GetRelevantCharacters(n) ==
    /\ CanAsk
    /\ query' = Noted("get_relevant_characters", n,
                      [selected |-> get_relevant_characters(mem, n),
                       scores   |-> [nm \in Names(mem.characters) |->
                                        calculate_character_relevance(mem, nm, n)]])
    /\ UNCHANGED <<storeVars, batchVars>>

QueryChapters == {2, 5}

MaxReadOps == 2

\* the caller fills the store, then reads; no mutation once it has read
CanPrepare == opCount < MaxReadOps /\ query = <<>>

NextRead ==
    \/ \E cl \in CharacterLists : CanPrepare /\ save_characters(cl, "none")
    \/ \E st \in SettingsInputs : CanPrepare /\ save_core_settings(st, "none")
    \/ \E n \in ChapterNumbers : \E data \in ChapterInputs :
           CanPrepare /\ update_with_chapter(n, data, "none")
    \/ \E n \in QueryChapters : GetContext(n)
    \/ \E n \in QueryChapters : GetRelevantCharacters(n)

SpecRead == Init /\ [][NextRead]_vars

\* casts large enough to meet the caps of 5 and 8 selected characters
CastName(c, k) == [i \in 1..k |-> c]

Leads(k) == [i \in 1..k |-> [name |-> CastName("a", i), importance |-> 9]]

Supporting ==
    <<[name |-> CastName("b", 1), importance |-> 6],
      [name |-> CastName("b", 2), importance |-> 7]>>

CastLists ==
    {Leads(4), Leads(5), Leads(9), Supporting, <<[name |-> <<"P", "c">>, importance |-> 1]>>}

NextCast ==
    \/ \E cl \in CastLists : CanPrepare /\ save_characters(cl, "none")
    \/ \E n \in QueryChapters : GetRelevantCharacters(n)

SpecCast == Init /\ [][NextCast]_vars

-----------------------------------------------------------------------------
(* ConsistencyChecker.  A text is represented by what the checks read from *)
(* it: its length, the words the keyword pattern finds in it (stop words   *)
(* removed), how many of the six time indicators and how many of the three *)
(* contradiction pairs occur in it, and which names and abilities occur.   *)

Text(len, keywords, time, contradictions, mentions) ==
    [len |-> len, keywords |-> keywords, time |-> time,
     contradictions |-> contradictions, mentions |-> mentions]

NoText == Text(0, <<>>, 0, 0, {})

extract_keywords(text) == FirstOf(text.keywords, 10)

Range(sq) == {sq[i] : i \in 1..Len(sq)}

\* continuity < 0.2, continuity being 0.0 when either list is empty
WeakContinuity(last_keywords, current_keywords) ==
    \/ last_keywords = <<>> \/ current_keywords = <<>>
    \/ 5 * Cardinality(Range(last_keywords) \cap Range(current_keywords))
           < Cardinality(Range(last_keywords))

\* a variant that reports every time indicator it meets
check_logical_issues_each(content) ==
    [i \in 1..content.time |-> "time"]
        \o [i \in 1..content.contradictions |-> "contradiction"]

check_logical_issues(content) ==
    (IF content.time > 3 THEN <<"time">> ELSE <<>>)
        \o [i \in 1..content.contradictions |-> "contradiction"]

Result(passed, score, issues) ==
    [raised |-> FALSE, passed |-> passed, score |-> score, issues |-> issues]

Raised == [raised |-> TRUE, passed |-> FALSE, score |-> 0, issues |-> <<>>]

\* match_ratio < 0.3 takes 30 points; abilities that go unmentioned add an
\* issue and take none
check_character_consistency(name, content, profile) ==
    LET pk == extract_keywords(profile.personality)
        ck == extract_keywords(content)
        matching == Cardinality({i \in 1..Len(pk) : InSeq(pk[i], ck)})
        off == profile.personality.len > 0 /\ 10 * matching < 3 * Max(Len(pk), 1)
        idle == profile.abilities # {} /\ profile.abilities \cap content.mentions = {}
    IN Result(~off, IF off THEN 100 - 30 ELSE 100,
              (IF off THEN <<"personality">> ELSE <<>>)
                  \o (IF idle THEN <<"abilities">> ELSE <<>>))

\* previous_summaries: a list of texts, or of (number, text) pairs as
\* _get_recent_summaries returns them; re.findall raises TypeError on a pair
check_plot_consistency(content, previous_summaries) ==
    IF previous_summaries # <<>> /\ previous_summaries[Len(previous_summaries)].kind = "pair"
    THEN Raised
    ELSE LET weak == /\ previous_summaries # <<>>
                     /\ WeakContinuity(
                            extract_keywords(previous_summaries[Len(previous_summaries)].text),
                            extract_keywords(content))
             logical == check_logical_issues(content)
         IN Result(logical = <<>>,
                   100 - (IF weak THEN 20 ELSE 0) - 10 * Len(logical),
                   (IF weak THEN <<"continuity">> ELSE <<>>) \o logical)

\* the list of violations is always empty; culture that goes unmentioned
\* adds an issue
check_worldview_consistency(content, worldview) ==
    LET kw == extract_keywords(worldview.culture)
        unmatched == /\ worldview.culture.len > 0 /\ kw # <<>>
                     /\ Range(FirstOf(kw, 5)) \cap Range(extract_keywords(content)) = {}
    IN Result(TRUE, 100, IF unmatched THEN <<"culture">> ELSE <<>>)

\* folds one executed check into the chapter's result: its score and issues
\* count only when the check did not pass
Merge(acc, check) ==
    IF acc.raised \/ check.raised THEN [acc EXCEPT !.raised = TRUE]
    ELSE [acc EXCEPT
             !.checks = Append(@, check),
             !.passed = @ /\ check.passed,
             !.score  = IF check.passed THEN @ ELSE Min(@, check.score),
             !.issues = IF check.passed THEN @ ELSE @ \o check.issues]

RECURSIVE MergeCharacters(_, _, _)
MergeCharacters(acc, content, characters) ==
    IF characters = <<>> THEN acc
    ELSE MergeCharacters(
             IF characters[1].name \in content.mentions
             THEN Merge(acc, check_character_consistency(characters[1].name, content,
                                                         characters[1]))
             ELSE acc,
             content, Tail(characters))

\* context: [characters, has_summaries, previous_summaries, has_worldview,
\* worldview]; checks: the detailed_checks in the order they were run
check_chapter_consistency(content, context) ==
    LET start == [raised |-> FALSE, passed |-> TRUE, score |-> 100, issues |-> <<>>,
                  checks |-> <<>>]
        c1 == MergeCharacters(start, content, context.characters)
        c2 == IF context.has_summaries
              THEN Merge(c1, check_plot_consistency(content, context.previous_summaries))
              ELSE c1
    IN IF context.has_worldview /\ ~c2.raised
       THEN Merge(c2, check_worldview_consistency(content, context.worldview))
       ELSE c2

RECURSIVE SumSeq(_)
SumSeq(sq) == IF sq = <<>> THEN 0 ELSE sq[1] + SumSeq(Tail(sq))

Average(scores) == IF scores = <<>> THEN 0 ELSE SumSeq(scores) \div Len(scores)

RECURSIVE CharacterScores(_, _)
CharacterScores(characters, chapters) ==
    IF characters = <<>> THEN <<>>
    ELSE LET here(ch) == characters[1].name \in ch.content.mentions
             seen == SelectSeq(chapters, here)
         IN [i \in 1..Len(seen) |->
                check_character_consistency(characters[1].name, seen[i].content,
                                            characters[1]).score]
            \o CharacterScores(Tail(characters), chapters)

PlotScores(chapters) ==
    [i \in 1..(Len(chapters) - 1) |->
        check_plot_consistency(chapters[i + 1].content,
                               <<[kind |-> "str", text |-> chapters[i].summary]>>).score]

\* weights 0.3, 0.4, 0.2, 0.1 in tenths; int() of the weighted sum
weights == <<3, 4, 2, 1>>

\* chapters: the chapter records in the order of their sorted numbers; the
\* worldview and the timeline score keep the 0 they are created with
full_consistency_check(characters, chapters) ==
    LET component_scores == <<Average(CharacterScores(characters, chapters)),
                              Average(PlotScores(chapters)), 0, 0>>
    IN [character_consistency |-> component_scores[1],
        plot_consistency      |-> component_scores[2],
        worldview_consistency |-> component_scores[3],
        timeline_consistency  |-> component_scores[4],
        overall_score |-> SumSeq([i \in 1..4 |-> component_scores[i] * weights[i]]) \div 10]

(* Inputs of the checks *)

TextPlain == Text(12, <<"k1", "k2">>, 0, 0, {})

TextNamed == Text(30, <<"k3">>, 1, 1, {NameA, NameB})

TextTangled == Text(50, <<"k4">>, 6, 3, {NameA, <<"s", "w">>})

Texts == {TextPlain, TextNamed, TextTangled}

CheckProfiles ==
    {[name |-> NameA, personality |-> Text(6, <<"k1", "k2", "k9">>, 0, 0, {}),
      abilities |-> {<<"s", "w">>}],
     [name |-> NameB, personality |-> NoText, abilities |-> {}],
     [name |-> NameB, personality |-> Text(4, <<"k3">>, 0, 0, {}), abilities |-> {}]}

CharacterSets ==
    {<<>>} \cup {<<p>> : p \in CheckProfiles}
           \cup {<<p, q>> : p \in {x \in CheckProfiles : x.name = NameA},
                            q \in {x \in CheckProfiles : x.name = NameB}}

SummaryLists ==
    {<<>>,
     <<[kind |-> "str", text |-> TextPlain]>>,
     <<[kind |-> "str", text |-> NoText], [kind |-> "str", text |-> TextTangled]>>,
     <<[kind |-> "pair", text |-> TextPlain]>>}

Worldviews == {[culture |-> NoText], [culture |-> Text(8, <<"k7">>, 0, 0, {})]}

Contexts ==
    {[characters |-> cs, has_summaries |-> hs, previous_summaries |-> ps,
      has_worldview |-> hw, worldview |-> [culture |-> NoText]] :
         cs \in CharacterSets, hs \in BOOLEAN, ps \in SummaryLists, hw \in BOOLEAN}

CheckedChapters ==
    {<<>>,
     <<[content |-> TextNamed, summary |-> TextPlain]>>,
     <<[content |-> TextPlain, summary |-> TextPlain],
       [content |-> TextPlain, summary |-> NoText]>>,
     <<[content |-> TextNamed, summary |-> TextPlain],
       [content |-> TextTangled, summary |-> TextPlain]>>,
     <<[content |-> TextTangled, summary |-> NoText],
       [content |-> TextNamed, summary |-> TextPlain],
       [content |-> TextPlain, summary |-> TextPlain]>>}

CheckCharacter(content, profile) ==
    /\ CanAsk
    /\ query' = Noted("check_character_consistency", 0,
                      check_character_consistency(profile.name, content, profile))
    /\ UNCHANGED <<storeVars, batchVars>>

CheckPlot(content, previous_summaries) ==
    /\ CanAsk
    /\ query' = Noted("check_plot_consistency", 0,
                      check_plot_consistency(content, previous_summaries))
    /\ UNCHANGED <<storeVars, batchVars>>

CheckWorldview(content, worldview) ==
    /\ CanAsk
    /\ query' = Noted("check_worldview_consistency", 0,
                      check_worldview_consistency(content, worldview))
    /\ UNCHANGED <<storeVars, batchVars>>

CheckChapter(content, context) ==
    /\ CanAsk
    /\ query' = Noted("check_chapter_consistency", 0,
                      check_chapter_consistency(content, context))
    /\ UNCHANGED <<storeVars, batchVars>>

FullCheck(characters, chapters) ==
    /\ CanAsk
    /\ query' = Noted("full_consistency_check", 0,
                      full_consistency_check(characters, chapters))
    /\ UNCHANGED <<storeVars, batchVars>>

NextCheck ==
    \/ \E t \in Texts : \E p \in CheckProfiles : CheckCharacter(t, p)
    \/ \E t \in Texts : \E ps \in SummaryLists : CheckPlot(t, ps)
    \/ \E t \in Texts : \E w \in Worldviews : CheckWorldview(t, w)
    \/ \E t \in Texts : \E cx \in Contexts : CheckChapter(t, cx)
    \/ \E cs \in CharacterSets : \E chs \in CheckedChapters : FullCheck(cs, chs)

SpecCheck == Init /\ [][NextCheck]_vars

-----------------------------------------------------------------------------
(* Properties of a batch *)

InUpdateWithChapter == {i \in 1..Len(workers) : workers[i].pc = "flush"}

\* C1: while a batch runs, at most one worker at a time is between the start
\* of update_with_chapter and the end of the flush that finishes it.
C1_MutationsExclusive == Cardinality(InUpdateWithChapter) <= 1

\* C2: in the report the batch returns, success_count + failed_count equals
\* the requested chapters_count, whatever the chapters and the progress and
\* status callbacks did.
C2_ReportAddsUp ==
    (batch.pc = "returned") =>
        batch.success_count + batch.failed_count = batch.chapters_count

HasOutcome(n) ==
    \E i \in 1..Len(workers) :
        workers[i].chapter = n /\ workers[i].pc = "done" /\ workers[i].collected

AtMostOnce ==
    /\ \A i \in 1..Len(workers) : workers[i].calls <= 1 /\ workers[i].chapter \in Requested
    /\ \A i, j \in 1..Len(workers) : workers[i].chapter = workers[j].chapter => i = j

\* C3: the generation call of each requested chapter is issued at most once,
\* and once the calls of a batch are being submitted the batch eventually
\* returns with a success or a failure outcome for every requested chapter,
\* whichever calls failed.
C3_OnceAndEventuallyAll ==
    /\ [](batch.pc # "idle" => AtMostOnce)
    /\ (batch.pc = "submit") ~>
           (batch.pc = "returned" /\ \A n \in Requested : HasOutcome(n))

C3_Witness ==
    /\ batch.pc = "returned"
    /\ \E i, j \in 1..Len(workers) :
           /\ workers[i].error = "generation" /\ workers[i].calls = 1
           /\ HasOutcome(workers[i].chapter)
           /\ workers[j].success /\ HasOutcome(workers[j].chapter)

\* C4: a chapter whose response was malformed (not JSON, or JSON of another
\* shape) ends as a failure: success is false and the chapter is not among
\* the successes of the report.
C4_MalformedIsFailure ==
    \A i \in 1..Len(workers) :
        (workers[i].malformed /\ workers[i].collected) =>
            /\ ~workers[i].success
            /\ \A k \in 1..Len(batch.chapters) : batch.chapters[k] # workers[i].chapter

-----------------------------------------------------------------------------
(* Properties of the store *)

\* C5: import_memory is all-or-nothing.  A call whose file is a JSON object
\* lacking one of the four mandatory categories returns False and leaves
\* every in-memory category, every category file and the backups as they were.
C5_ImportAllOrNothing ==
    [][(opCount' = opCount + 1 /\ last'.op = "import_memory" /\ last'.missing)
           => (last'.result = "false" /\ mem' = mem /\ disk' = disk /\ backups' = backups)]_vars

\* a rejected import has happened on a store that holds data in memory and on disk
C5_Witness ==
    /\ last.op = "import_memory" /\ last.missing /\ last.result = "false"
    /\ mem.characters # <<>>
    /\ mem.core_settings # ImportData.core_settings
    /\ disk.core.kind = "valid"

\* what a flush of category c would leave on disk is what is there
Written(c) == WriteCategory(c, mem, disk) = disk

EntriesOf(files) == [f \in DOMAIN files |-> files[f].val]

ValuesOf(seq) == {seq[i] : i \in 1..Len(seq)}

\* exactly one file is damaged and it is the only file of its category
OneDamagedCategory ==
    /\ Cardinality(DamagedFiles(disk)) = 1
    /\ \A df \in DamagedFiles(disk) :
           df[1] \in {"characters", "plots", "locations"} =>
               Cardinality(DOMAIN disk[df[1]]) = 1

DamagedCategory == (CHOOSE df \in DamagedFiles(disk) : TRUE)[1]

\* the loaded category is what the category's files hold
LoadedFaithfully(c) ==
    CASE c = "core"       -> fresh.mem.core_settings = disk.core.val
      [] c = "characters" -> AsMap(fresh.mem.characters) = EntriesOf(disk.characters)
      [] c = "summaries"  -> fresh.mem.chapter_summaries = disk.summaries.val
      [] c = "worldview"  -> fresh.mem.worldview = disk.worldview.val
      [] c = "timeline"   -> fresh.mem.timeline = disk.timeline.val
      [] c = "plots"      -> ValuesOf(fresh.mem.plots) = {disk.plots[f].val : f \in DOMAIN disk.plots}
      [] c = "locations"  -> fresh.mem.locations = EntriesOf(disk.locations)

LoadedEmpty(c) ==
    CASE c = "core"       -> fresh.mem.core_settings = EmptyMap
      [] c = "characters" -> fresh.mem.characters = <<>>
      [] c = "summaries"  -> fresh.mem.chapter_summaries = EmptyMap
      [] c = "worldview"  -> fresh.mem.worldview = EmptyMap
      [] c = "timeline"   -> fresh.mem.timeline = <<>>
      [] c = "plots"      -> fresh.mem.plots = <<>>
      [] c = "locations"  -> fresh.mem.locations = EmptyMap

\* C6: when exactly one category's persisted record is damaged (empty,
\* broken JSON or undecodable bytes) and everything else is valid, the load
\* succeeds, the damaged category is its empty default and every other
\* category holds what its files hold.
C6_LoadIsolatesCorruption ==
    (fresh.status # "none" /\ OneDamagedCategory) =>
        /\ fresh.status = "ok"
        /\ LoadedEmpty(DamagedCategory)
        /\ \A i \in 1..Len(Categories) :
               Categories[i] # DamagedCategory => LoadedFaithfully(Categories[i])

\* C7: when the write of one category fails in a save, every other
\* category, before and after it in the order of writing, is written by
\* that same save.
C7_SaveBestEffort ==
    (last.failAt # "none") =>
        \A i \in 1..Len(Categories) : Categories[i] # last.failAt => Written(Categories[i])

\* C8: after more than 5 consecutive saves exactly 5 snapshots exist, and
\* they are those taken by the 5 most recent saves.
C8_BackupRetention ==
    (saveSeq > BackupsKept) =>
        /\ Cardinality(DOMAIN backups) = BackupsKept
        /\ {backups[t].by : t \in DOMAIN backups} = (saveSeq - BackupsKept + 1)..saveSeq

\* C9: clear_memory returns normally and leaves every category empty in
\* memory and on disk.
C9_ClearReturns ==
    (last.op = "clear_memory") =>
        /\ last.result = "none"
        /\ mem = EmptyMem
        /\ disk = EmptyDisk

SameStore(a, b) ==
    /\ a.core_settings = b.core_settings
    /\ AsMap(a.characters) = AsMap(b.characters)
    /\ a.worldview = b.worldview
    /\ a.chapter_summaries = b.chapter_summaries
    /\ a.relationship_graph = b.relationship_graph
    /\ a.timeline = b.timeline
    /\ a.plots = b.plots
    /\ a.locations = b.locations

\* C10: after mutating operations that each returned, a store constructed
\* on the same directory equals the in-memory store in every category.
C10_DurabilityRoundTrip ==
    (fresh.status # "none" /\ last.clean /\ opCount > 0) =>
        /\ fresh.status = "ok"
        /\ SameStore(fresh.mem, mem)

-----------------------------------------------------------------------------
(* Properties of the extraction pipeline *)

IsPrefix(a, b) == Len(a) <= Len(b) /\ SubSeq(b, 1, Len(a)) = a

HistoriesKept(m1, m2) ==
    /\ \A nm \in Names(m1.characters) :
           /\ nm \in Names(m2.characters)
           /\ IsPrefix(Profile(m1.characters, nm).development_history,
                       Profile(m2.characters, nm).development_history)
    /\ IsPrefix(m1.timeline, m2.timeline)
    /\ \A i \in 1..Len(m1.plots) :
           i <= Len(m2.plots) /\ IsPrefix(m1.plots[i].chapters, m2.plots[i].chapters)

\* C11: every store operation other than clear_memory (and other than an
\* import, which replaces the store by the imported one) leaves each
\* character's development_history, the timeline and each plot thread's
\* chapter list with their former value as a prefix.
C11_AppendOnly ==
    [][(opCount' = opCount + 1 /\ last'.op \notin {"clear_memory", "import_memory"})
           => HistoriesKept(mem, mem')]_vars

Relationships == mem.relationship_graph.rels

\* C12: there is at most one relationship record for two characters: never
\* one for (A, B) and another for (B, A).
C12_OneRecordPerPair ==
    \A pr \in DOMAIN Relationships : <<pr[2], pr[1]>> \notin DOMAIN Relationships

Occurrences(s, name) == {Offset(s, i) : i \in {j \in 1..Len(s) : MatchesAt(s, name, j)}}

ClosePairs(chars, content) ==
    {pr \in Names(chars) \X Names(chars) :
        /\ pr[1] # pr[2]
        /\ \E p1 \in Occurrences(content, pr[1]) : \E p2 \in Occurrences(content, pr[2]) :
               Abs(p1 - p2) < ProximityWindow}

CountOf(graph, pr) ==
    IF graph.shape = "dict" /\ pr \in DOMAIN graph.rels
    THEN graph.rels[pr].interaction_count ELSE 0

Counted(g1, g2, pr, n) ==
    /\ g2.shape = "dict" /\ pr \in DOMAIN g2.rels
    /\ g2.rels[pr].interaction_count = CountOf(g1, pr) + 1
    /\ g2.rels[pr].last_interaction = n
    /\ Cardinality({i \in 1..Len(g2.rels[pr].interaction_chapters) :
                        g2.rels[pr].interaction_chapters[i] = n}) = 1
    /\ CountOf(g1, pr) = 0 => g2.rels[pr].interaction_chapters = <<n>>

\* C13: one update_with_chapter call adds exactly 1 to the interaction_count
\* of every pair of known characters whose names occur less than 500
\* characters apart in the content, sets last_interaction to the chapter and
\* leaves the chapter once in interaction_chapters; from no record the
\* result is a count of 1 and the list [chapter].
C13_InteractionCounted ==
    [][\A n \in ChapterNumbers : \A data \in ChapterInputs :
           (CanOp /\ update_with_chapter(n, data, "none")) =>
               \A pr \in ClosePairs(mem.characters, data.content) :
                   Counted(mem.relationship_graph, mem'.relationship_graph, pr, n)]_vars

\* C14: update_with_chapter for chapter N replaces the summary record of N
\* by one made of the new chapter data alone and touches no other record;
\* processing the same chapter data again leaves the chapter summaries as
\* they were after the first call.
C14_SummaryOverwrite ==
    [][\A n \in ChapterNumbers : \A data \in ChapterInputs :
           (CanOp /\ update_with_chapter(n, data, "none")) =>
               LET after == mem'.chapter_summaries
               IN /\ DOMAIN after = (DOMAIN mem.chapter_summaries) \cup {str(n)}
                  /\ \A k \in (DOMAIN mem.chapter_summaries) \ {str(n)} :
                         after[k] = mem.chapter_summaries[k]
                  /\ after[str(n)].chapter_number = n
                  /\ after[str(n)].word_count = StrLen(data.content)
                  /\ after[str(n)].key_events = data.key_events
                  /\ StrLen(data.summary) # 0 => after[str(n)].summary = data.summary
                  /\ StrLen(data.summary) = 0 =>
                         /\ StrLen(after[str(n)].summary) <= SummaryLimit + 3
                         /\ TakeChars(after[str(n)].summary, SummaryLimit)
                                = TakeChars(data.content, SummaryLimit)
                  /\ update_memory(mem', n, data).mem.chapter_summaries = after]_vars

\* chapter 1 processed with other data, then twice with the same data
C14_Witness ==
    /\ last.op = "update_with_chapter" /\ opCount = 3
    /\ DOMAIN mem.chapter_summaries = {str(1)}
    /\ mem.chapter_summaries[str(1)].key_events = ChapterNear.key_events
    /\ Len(mem.timeline) = 5
    /\ mem.timeline[1].description = EventXY
    /\ \A i \in 2..5 : mem.timeline[i].description \in {EventX, EventY}

Developed(devs) == {devs[i].name : i \in 1..Len(devs)}

\* C15: for every (name, note) of the chapter's character_development whose
\* name is a known character, one update_with_chapter call appends exactly
\* one entry {chapter, note} to that character's development_history and
\* sets last_appearance to the chapter; processing the same chapter again
\* appends again.
C15_DevelopmentAppended ==
    [][\A n \in ChapterNumbers : \A data \in ChapterInputs :
           (CanOp /\ update_with_chapter(n, data, "none")) =>
               \A i \in 1..Len(data.character_development) :
                   LET nm == data.character_development[i].name
                   IN nm \in Names(mem.characters) =>
                          /\ Profile(mem'.characters, nm).development_history =
                                 Append(Profile(mem.characters, nm).development_history,
                                        [chapter |-> n,
                                         development |-> data.character_development[i].note])
                          /\ Profile(mem'.characters, nm).last_appearance = n]_vars

\* the same chapter processed twice: two equal entries
C15_Witness ==
    /\ last.op = "update_with_chapter"
    /\ NameA \in Names(mem.characters)
    /\ LET h == Profile(mem.characters, NameA).development_history
       IN Len(h) = 2 /\ h[1] = h[2]

\* C16: update_with_chapter creates and deletes no character: the names are
\* the same before and after the call, and the profile of a character that
\* the chapter's character_development does not name is unchanged.
C16_NoCharacterCreated ==
    [][\A n \in ChapterNumbers : \A data \in ChapterInputs :
           (CanOp /\ update_with_chapter(n, data, "none")) =>
               /\ Len(mem'.characters) = Len(mem.characters)
               /\ \A i \in 1..Len(mem.characters) :
                      /\ mem'.characters[i].name = mem.characters[i].name
                      /\ mem.characters[i].name \notin Developed(data.character_development)
                             => mem'.characters[i].prof = mem.characters[i].prof]_vars

\* a chapter that develops the unknown name z was processed, a is known
C16_Witness ==
    /\ last.op = "update_with_chapter"
    /\ Names(mem.characters) = {NameA, NameB}
    /\ Len(Profile(mem.characters, NameA).development_history) = 1
    /\ Profile(mem.characters, NameB).development_history = <<>>

-----------------------------------------------------------------------------
(* Properties of the relevance engine *)

-----------------------------------------------------------------------------
(* Properties of the consistency checker *)

IsScore(x) == x \in 0..100

ChecksMade(fn) == {i \in 1..Len(query) : query[i].fn = fn /\ ~query[i].out.raised}

AxisChecks ==
    ChecksMade("check_character_consistency") \cup ChecksMade("check_plot_consistency")
        \cup ChecksMade("check_worldview_consistency")

FullChecks == {i \in 1..Len(query) : query[i].fn = "full_consistency_check"}

\* C18: every score a check returns lies in 0..100: the score of each axis
\* check, the chapter score and the scores of its detailed checks, and the
\* four component scores and the overall score of the full check.
C18_ScoresBounded ==
    /\ \A i \in AxisChecks : IsScore(query[i].out.score)
    /\ \A i \in ChecksMade("check_chapter_consistency") :
           /\ IsScore(query[i].out.score)
           /\ \A k \in 1..Len(query[i].out.checks) : IsScore(query[i].out.checks[k].score)
    /\ \A i \in FullChecks :
           /\ IsScore(query[i].out.character_consistency)
           /\ IsScore(query[i].out.plot_consistency)
           /\ IsScore(query[i].out.worldview_consistency)
           /\ IsScore(query[i].out.timeline_consistency)
           /\ IsScore(query[i].out.overall_score)

\* the lowest plot score (weak continuity, four logical issues) and a full
\* check with a positive overall score
C18_Witness ==
    /\ \E i \in ChecksMade("check_plot_consistency") : query[i].out.score = 40
    /\ \E i \in FullChecks : query[i].out.overall_score > 0

\* C19: the score check_chapter_consistency returns is at most the score of
\* every check it ran for the chapter, passed or not.
C19_CompositeAtMostMin ==
    \A i \in ChecksMade("check_chapter_consistency") :
        \A k \in 1..Len(query[i].out.checks) :
            query[i].out.score <= query[i].out.checks[k].score

\* C20: the overall score of full_consistency_check is
\* floor(0.3 x character + 0.4 x plot + 0.2 x worldview + 0.1 x timeline)
\* with the worldview component 100 (no worldview issue is ever found) and
\* the timeline component 100.
C20_WeightedOverall ==
    \A i \in FullChecks :
        /\ query[i].out.worldview_consistency = 100
        /\ query[i].out.timeline_consistency = 100
        /\ query[i].out.overall_score =
               (3 * query[i].out.character_consistency
                    + 4 * query[i].out.plot_consistency + 2 * 100 + 1 * 100) \div 10

-----------------------------------------------------------------------------
(* Properties of the plot threads *)

Matching(plots, events) == {i \in 1..Len(plots) : PlotMatches(plots[i], events)}

FirstMatching(plots, events) ==
    CHOOSE i \in Matching(plots, events) : \A j \in Matching(plots, events) : i <= j

KeywordsOf(events) == SubSeq(events, 1, IF Len(events) < 3 THEN Len(events) ELSE 3)

Extracted(n, data) ==
    /\ CanOp
    /\ update_with_chapter(n, data, "none")
    /\ last'.result = "none"
    /\ data.key_events # <<>>

\* C21: a chapter with key events is folded into at most one existing plot
\* thread: its number is appended to the first thread, in store order, whose
\* keywords match some key event, and the chapters of every other existing
\* thread stay as they were, even when several threads match.
C21_FoldedIntoFirstMatch ==
    [][\A n \in ChapterNumbers : \A data \in ChapterInputs :
          Extracted(n, data) =>
              \A i \in 1..Len(mem.plots) :
                  mem'.plots[i].chapters =
                      IF /\ Matching(mem.plots, data.key_events) # {}
                         /\ i = FirstMatching(mem.plots, data.key_events)
                      THEN Append(mem.plots[i].chapters, n)
                      ELSE mem.plots[i].chapters]_vars

\* C22: update_with_chapter creates a plot thread only when no existing
\* thread matched the key events and there are at least two key events; when
\* a thread matched, the number of threads is unchanged. The created thread
\* starts and ends at the chapter and has the first three key events as
\* keywords.
C22_ThreadCreatedWhenNovel ==
    [][\A n \in ChapterNumbers : \A data \in ChapterInputs :
          Extracted(n, data) =>
              IF Matching(mem.plots, data.key_events) = {} /\ Len(data.key_events) >= 2
              THEN /\ Len(mem'.plots) = Len(mem.plots) + 1
                   /\ mem'.plots[Len(mem'.plots)].start_chapter = n
                   /\ mem'.plots[Len(mem'.plots)].end_chapter = n
                   /\ mem'.plots[Len(mem'.plots)].keywords = KeywordsOf(data.key_events)
              ELSE Len(mem'.plots) = Len(mem.plots)]_vars

PlotsInRange(plots) ==
    \A i \in 1..Len(plots) : \A k \in 1..Len(plots[i].chapters) :
        /\ plots[i].start_chapter <= plots[i].chapters[k]
        /\ plots[i].chapters[k] <= plots[i].end_chapter

\* C27: update_with_chapter keeps every chapter number of every plot thread
\* within the thread's start_chapter..end_chapter, so a thread extended by a
\* chapter is active for that chapter.
C27_ChaptersWithinThread ==
    [][\A n \in ChapterNumbers : \A data \in ChapterInputs :
          (Extracted(n, data) /\ PlotsInRange(mem.plots)) => PlotsInRange(mem'.plots)]_vars

-----------------------------------------------------------------------------
(* Properties of the character selection *)

Selections == {i \in 1..Len(query) : query[i].fn = "get_relevant_characters"}

\* C23: the selection of _get_relevant_characters respects the cap of the
\* chapter: for chapters 1-3 no character of importance 6 or 7 is added once
\* 5 characters are selected, and for later chapters at most 8 characters are
\* selected, whatever the store holds.
C23_SelectionCapped ==
    \A i \in Selections :
        LET selected == query[i].out.selected
        IN IF query[i].n <= 3
           THEN \A k \in 1..Len(selected) :
                    (k > 5 /\ k > Len(Always(mem.characters)))
                        => Profile(mem.characters, selected[k]).importance \notin {6, 7}
           ELSE Len(selected) <= 8

-----------------------------------------------------------------------------
(* Properties of the checker as the batch calls it *)

\* C24: check_chapter_consistency never raises, whatever the chapter and the
\* context, the context built from _get_recent_summaries included: every
\* call returns a result.
C24_CheckNeverRaises ==
    \A i \in 1..Len(query) :
        query[i].fn = "check_chapter_consistency" => ~query[i].out.raised

\* the worker has run the consistency check of its chapter
Checked(w) ==
    /\ batch.checker
    /\ \/ w.pc \in {"update", "flush"}
       \/ w.pc = "done" /\ (w.success \/ w.error \in {"check", "update"})

\* C25: a worker updates the store with its chapter before it runs the
\* consistency check of that chapter, so that the check cannot prevent the
\* update: once the check of a chapter has run, the store holds the chapter.
C25_UpdateBeforeCheck ==
    \A i \in 1..Len(workers) :
        Checked(workers[i]) => str(workers[i].chapter) \in DOMAIN mem.chapter_summaries

\* C28: add_relationship and update_with_chapter can be called in any order
\* on one store: neither raises after the other.
C28_AnyOrder ==
    last.op \in {"add_relationship", "update_with_chapter"} => last.result # "raised"

-----------------------------------------------------------------------------
(* Properties of the pool *)

\* C26: with max_workers = 1 the batch is strictly ordered: the worker of
\* chapter N+1 assembles its context only when the worker of chapter N has
\* finished, and it sees the summary of chapter N if chapter N was flushed.
\* (With a larger pool the order is not kept.)
C26_SerialOrder ==
    (batch.pc # "idle" /\ batch.max_workers = 1) =>
        \A i \in 1..(Len(workers) - 1) :
            workers[i + 1].pc # "queued" =>
                /\ workers[i].pc = "done"
                /\ workers[i].success => str(workers[i].chapter) \in workers[i + 1].seen

\* chapter 1 was flushed and chapter 2 has assembled its context after that
C26_Witness ==
    /\ batch.pc # "idle" /\ batch.max_workers = 1
    /\ Len(workers) >= 2
    /\ workers[1].success
    /\ workers[2].pc # "queued"
    /\ str(workers[1].chapter) \in workers[2].seen

-----------------------------------------------------------------------------
(* Properties of the planned batch *)

Submitted == {workers[i].chapter : i \in 1..Len(workers)}

PendingIn(plan) == {plan[k].chapter : k \in {j \in 1..Len(plan) : plan[j].pending}}

\* C29: generate_batch_with_plan submits exactly the chapters whose status
\* in the plan is pending: no completed chapter is generated again and no
\* pending chapter is skipped, contiguous or not.
C29_PendingSubmitted ==
    batch.pc \in {"collect", "returned", "declined"} =>
        Submitted = PendingIn(query[1].out)

-----------------------------------------------------------------------------
(* Properties of a failed chapter *)

Stored(n) ==
    \/ str(n) \in DOMAIN mem.chapter_summaries
    \/ str(n) \in DOMAIN disk.summaries.val

\* C30: a chapter the batch reports as failed has left nothing in the store,
\* in memory or on disk, and every chapter reported as success has its
\* summary in the store when the batch returns.
C30_FailedLeavesNoTrace ==
    /\ \A i \in 1..Len(workers) :
           (workers[i].pc = "done" /\ ~workers[i].success) => ~Stored(workers[i].chapter)
    /\ batch.pc = "returned" =>
           \A i \in 1..Len(workers) :
               workers[i].success => str(workers[i].chapter) \in DOMAIN mem.chapter_summaries

====
